---- MODULE Spec2Model ----
(***************************************************************************)
(* Task lifecycle of the subtitle-removal API: the in-memory Task Store    *)
(* (TaskService), the orchestrator (VideoService.start_processing_task,    *)
(* SubtitleDetectionService.detect_subtitles), the worker thread           *)
(* (VideoService._process_video_sync) and the HTTP routes that call them.  *)
(*                                                                         *)
(* Granularity: every store operation that runs under TaskService's lock   *)
(* is one atomic step.  A route handler is a sequence of such steps: an    *)
(* await on the lock is a point where other handlers and the worker        *)
(* threads may run.  Lock-free reads (get_task) are joined to the step     *)
(* that follows them only where no store state can tell the difference.    *)
(***************************************************************************)
EXTENDS Integers, Sequences, FiniteSets, TLC

\* ----------------------------------------------------------------- bounds
MaxWorkers == 2      \* worker threads spawned over a run
MaxClock == 3        \* distinct datetime.now() readings over a run
MaxRequests == 3     \* process, detect, delete and cancel requests over a run

\* The store is a dict keyed by uuid4 task ids and every operation modelled
\* here touches the entry of one id only, so the lifecycle is followed for one
\* task id; what the tasks share (the clock, the worker threads) is kept.
TaskIds == {"t1"}
NoTaskId == "none"
WorkerIds == 1..MaxWorkers

\* ------------------------------------------------------------ value spaces
NoText == "None"              \* an Optional[str] field that is None
NoTime == 0                   \* an Optional[datetime] field that is None
NoProgress == -1              \* the progress argument left at its default None

PENDING == "pending"
DETECTING == "detecting"
PROCESSING == "processing"
COMPLETED == "completed"
FAILED == "failed"
TaskStatus == {PENDING, DETECTING, PROCESSING, COMPLETED, FAILED}

\* error_message texts written by the code
MsgCancelled == "cancelled by user"       \* "任务已被用户取消"
MsgDetectFailed == "detection failed"     \* "字幕检测失败"
MsgDetectException == "detect: str(e)"    \* str(e) in detect_subtitles
MsgNoOutput == "no output file"           \* "输出文件未生成"
MsgWorkerException == "worker: str(e)"    \* str(e) in _process_video_sync
\* str(e) of the exception caught in _process_video_sync: the exception's
\* message, or the empty string for one raised without arguments
\* (MemoryError(), a bare assert)
ExceptionTexts == {MsgWorkerException, ""}

\* subtitle_regions: [kind |-> "none"] is None, otherwise a list of
\* [x1, y1, x2, y2] entries
RegNone == [kind |-> "none", list |-> <<>>]
RegList(l) == [kind |-> "list", list |-> l]

\* the regions a caller may supply at upload
UploadRegions == {RegNone, RegList(<< <<50, 100, 10, 80>> >>)}

\* what the detector collaborator may return to detect_subtitles
DetectOutcomes ==
  { [kind |-> "analysis", has_subtitles |-> TRUE,
     regions |-> << [x |-> 10, y |-> 80, width |-> 40, height |-> 20] >>],
    [kind |-> "analysis", has_subtitles |-> FALSE, regions |-> <<>>],
    [kind |-> "none", has_subtitles |-> FALSE, regions |-> <<>>],
    [kind |-> "exception", has_subtitles |-> FALSE, regions |-> <<>>] }

ProgressValues == {50}

VARIABLES
  issued,             \* requests received so far (bounded by MaxRequests)
  tasks,              \* TaskService._tasks
  uploaded,           \* task ids already handed out (uuid4 never repeats)
  now,                \* next reading of datetime.now()
  processing_tasks,   \* VideoService._processing_tasks: task id -> thread
  remover_instances,  \* VideoService._remover_instances: task id -> remover
  workers,            \* the worker threads and where each one stands
  startReq,           \* POST /process in flight, per task
  detReq,             \* POST /detect-subtitles in flight, per task
  delReq,             \* DELETE /task/{id} in flight, per task
  canReq,             \* POST /task/{id}/cancel in flight, per task
  task_lock,          \* TaskService._task_lock: its _locked flag
  callers,            \* store calls in progress, one per thread, step by step
  snapshot,           \* what a lock-free reader of the store last saw, if any
  engine,             \* a call studied on its own: its input and where it stands
  analysis            \* the value the call works on (a TimedSubtitleAnalysis,
                      \* the worker's sub_area, a mask map)

vars == <<issued, tasks, uploaded, now, processing_tasks, remover_instances, workers,
          startReq, detReq, delReq, canReq, task_lock, callers, snapshot,
          engine, analysis>>

\* the request handlers and worker threads of the lifecycle
lifecycleVars == <<issued, uploaded, processing_tasks, remover_instances, workers,
                   startReq, detReq, delReq, canReq>>
\* the lock seen step by step
lockVars == <<task_lock, callers, snapshot>>
\* the region consolidation engine
engineVars == <<engine, analysis>>

\* ------------------------------------------------------------- Task Store
\* Task(...) as create_task builds it: the model's fields of models/task.py
NewTask(regions, auto) ==
  [status |-> PENDING, progress |-> 0, started_at |-> NoTime,
   completed_at |-> NoTime, error_message |-> NoText, output_path |-> NoText,
   subtitle_regions |-> regions, auto_detect_subtitles |-> auto]

\* TaskService.get_task: whether the dict holds the id
HasTask(t) == t \in DOMAIN tasks

\* the timestamp branch of update_task_status reads datetime.now()
ReadsClock(task, status) ==
  \/ status = PROCESSING /\ task.started_at = NoTime
  \/ status \in {COMPLETED, FAILED}

\* update_task_status with the `not task.started_at` test dropped: every
\* signal of PROCESSING stamps started_at again
update_task_status_restamp(task, status, progress, error_message, output_path, clock) ==
  LET t1 == [task EXCEPT
               !.status = status,
               !.progress = IF progress # NoProgress THEN progress ELSE @,
               !.error_message = IF error_message # NoText THEN error_message ELSE @,
               !.output_path = IF output_path # NoText THEN output_path ELSE @]
  IN IF status = PROCESSING
       THEN [t1 EXCEPT !.started_at = clock]
       ELSE IF status \in {COMPLETED, FAILED}
              THEN [t1 EXCEPT !.completed_at = clock]
              ELSE t1

\* TaskService.update_task_status on one Task object
update_task_status(task, status, progress, error_message, output_path, clock) ==
  LET t1 == [task EXCEPT
               !.status = status,
               !.progress = IF progress # NoProgress THEN progress ELSE @,
               !.error_message = IF error_message # NoText THEN error_message ELSE @,
               !.output_path = IF output_path # NoText THEN output_path ELSE @]
  IN IF status = PROCESSING /\ t1.started_at = NoTime
       THEN [t1 EXCEPT !.started_at = clock]
       ELSE IF status \in {COMPLETED, FAILED}
              THEN [t1 EXCEPT !.completed_at = clock]
              ELSE t1

\* a call of update_task_status from any caller: a no-op (returns None) when
\* the task is not in the store
StoreUpdate(t, status, progress, error_message, output_path) ==
  /\ now <= MaxClock
  /\ IF HasTask(t)
       THEN /\ tasks' = [tasks EXCEPT ![t] =
                           update_task_status(tasks[t], status, progress,
                                              error_message, output_path, now)]
            /\ now' = IF ReadsClock(tasks[t], status) THEN now + 1 ELSE now
       ELSE UNCHANGED <<tasks, now>>

\* TaskService.update_task_progress
update_task_progress(t, progress) ==
  StoreUpdate(t, PROCESSING, progress, NoText, NoText)

\* cancel_task that also resets the progress of the task
cancel_task_reset(t) ==
  StoreUpdate(t, FAILED, 0, MsgCancelled, NoText)

\* TaskService.cancel_task
cancel_task(t) ==
  StoreUpdate(t, FAILED, NoProgress, MsgCancelled, NoText)

\* TaskService.update_subtitle_regions
update_subtitle_regions(t, regions) ==
  /\ tasks' = IF HasTask(t) THEN [tasks EXCEPT ![t].subtitle_regions = regions]
                           ELSE tasks
  /\ UNCHANGED now

\* TaskService.delete_task
delete_task(t) ==
  tasks' = [x \in DOMAIN tasks \ {t} |-> tasks[x]]

\* ------------------------------------------------------------------ Init
IdleStart == [pc |-> "idle", auto |-> FALSE,
              has_subtitles |-> FALSE, regions |-> <<>>]

Init ==
  /\ issued = 0
  /\ tasks = <<>>
  /\ uploaded = {}
  /\ now = 1
  /\ processing_tasks = <<>>
  /\ remover_instances = <<>>
  /\ workers = [w \in WorkerIds |-> [pc |-> "unborn", task |-> NoTaskId,
                                      sub_area |-> RegNone]]
  /\ startReq = [t \in TaskIds |-> IdleStart]
  /\ detReq = [t \in TaskIds |-> "idle"]
  /\ delReq = [t \in TaskIds |-> "idle"]
  /\ canReq = [t \in TaskIds |-> "idle"]
  /\ task_lock = FALSE
  /\ callers = <<>>
  /\ snapshot = <<>>
  /\ engine = NoText
  /\ analysis = NoText

\* ---------------------------------------------------------------- upload
\* POST /upload: create_task with a fresh uuid
Upload(t, regions, auto) ==
  /\ t \notin uploaded
  /\ uploaded' = uploaded \cup {t}
  /\ tasks' = tasks @@ (t :> NewTask(regions, auto))
  /\ UNCHANGED <<issued, now, processing_tasks, remover_instances, workers,
                 startReq, detReq, delReq, canReq>>
  /\ UNCHANGED <<lockVars, engineVars>>

\* a request is received (one more of the MaxRequests of a run)
Receive == issued < MaxRequests /\ issued' = issued + 1

\* ------------------------------------------------ detection (shared steps)
\* detect_subtitles, the store update that follows the detector's answer:
\* PENDING after an analysis, FAILED when there is none or on an exception
DetectResultUpdate(t, outcome) ==
  IF outcome.kind = "analysis"
    THEN StoreUpdate(t, PENDING, NoProgress, NoText, NoText)
    ELSE IF outcome.kind = "none"
           THEN StoreUpdate(t, FAILED, NoProgress, MsgDetectFailed, NoText)
           ELSE StoreUpdate(t, FAILED, NoProgress, MsgDetectException, NoText)

\* the dict detect_subtitles returns: has_subtitles and regions of the analysis,
\* has_subtitles False and no regions on the two failure paths
DetectReturn(outcome) ==
  IF outcome.kind = "analysis"
    THEN [has_subtitles |-> outcome.has_subtitles, regions |-> outcome.regions]
    ELSE [has_subtitles |-> FALSE, regions |-> <<>>]

\* start_processing_task: {x, y, width, height} -> [x1, y1, x2, y2]
RECURSIVE ToFlatRegions(_)
ToFlatRegions(rs) ==
  IF rs = <<>> THEN <<>>
  ELSE << <<Head(rs).x, Head(rs).y,
            Head(rs).x + Head(rs).width, Head(rs).y + Head(rs).height>> >>
       \o ToFlatRegions(Tail(rs))

\* --------------------------------------------------------- POST /process
\* routes/video.py start_processing: auto_detect is the request's flag or the
\* flag stored at upload
AutoDetect(autoParam, task) == autoParam \/ task.auto_detect_subtitles

\* start_processing_task detecting whatever the flag says
NeedsDetection_always(req) == TRUE

\* start_processing_task: `if auto_detect_subtitles:`
NeedsDetection(req) == req.auto

\* start_processing_task storing the detection's regions whatever it found
WantsRegionUpdate_always(req) == TRUE

\* start_processing_task: `if detection_result and
\* detection_result.get("has_subtitles", False):`
WantsRegionUpdate(req) == req.has_subtitles

\* the route's get_task and start_processing_task's get_task, with
\* start_immediately set (a missing task is answered 404, and a call without
\* start_immediately 200, both with no change of state)
StartRoute(t, autoParam) ==
  /\ Receive
  /\ startReq[t].pc = "idle"
  /\ HasTask(t)
  /\ startReq' = [startReq EXCEPT ![t] =
         [IdleStart EXCEPT !.pc = "got",
                           !.auto = AutoDetect(autoParam, tasks[t])]]
  /\ UNCHANGED <<tasks, uploaded, now, processing_tasks, remover_instances,
                 workers, detReq, delReq, canReq>>
  /\ UNCHANGED <<lockVars, engineVars>>

\* start_processing_task: update_task_status(task_id, DETECTING)
StartDetecting(t) ==
  /\ startReq[t].pc = "got"
  /\ NeedsDetection(startReq[t])
  /\ StoreUpdate(t, DETECTING, NoProgress, NoText, NoText)
  /\ startReq' = [startReq EXCEPT ![t].pc = "detect"]
  /\ UNCHANGED <<issued, uploaded, processing_tasks, remover_instances, workers,
                 detReq, delReq, canReq>>
  /\ UNCHANGED <<lockVars, engineVars>>

\* detect_subtitles: get_task, then update_task_status(DETECTING); a missing
\* task raises ValueError, whose handler updates to FAILED (a no-op on the
\* missing task) and returns the failure dict
StartDetectBegin(t) ==
  /\ startReq[t].pc = "detect"
  /\ IF HasTask(t)
       THEN /\ StoreUpdate(t, DETECTING, NoProgress, NoText, NoText)
            /\ startReq' = [startReq EXCEPT ![t].pc = "analyze"]
       ELSE /\ StoreUpdate(t, FAILED, NoProgress, MsgDetectException, NoText)
            /\ startReq' = [startReq EXCEPT ![t].pc = "detected"]
  /\ UNCHANGED <<issued, uploaded, processing_tasks, remover_instances, workers,
                 detReq, delReq, canReq>>
  /\ UNCHANGED <<lockVars, engineVars>>

\* detect_subtitles: the detector answers and the result is stored
StartDetectResult(t, outcome) ==
  /\ startReq[t].pc = "analyze"
  /\ DetectResultUpdate(t, outcome)
  /\ startReq' = [startReq EXCEPT
                    ![t].pc = "detected",
                    ![t].has_subtitles = DetectReturn(outcome).has_subtitles,
                    ![t].regions = DetectReturn(outcome).regions]
  /\ UNCHANGED <<issued, uploaded, processing_tasks, remover_instances, workers,
                 detReq, delReq, canReq>>
  /\ UNCHANGED <<lockVars, engineVars>>

\* start_processing_task: update_subtitle_regions when has_subtitles
StartUpdateRegions(t) ==
  /\ startReq[t].pc = "detected"
  /\ WantsRegionUpdate(startReq[t])
  /\ update_subtitle_regions(t, RegList(ToFlatRegions(startReq[t].regions)))
  /\ startReq' = [startReq EXCEPT ![t].pc = "regions_done"]
  /\ UNCHANGED <<issued, uploaded, processing_tasks, remover_instances, workers,
                 detReq, delReq, canReq>>
  /\ UNCHANGED <<lockVars, engineVars>>

\* the thread object a start call creates: the first one not yet used
FreeWorker == CHOOSE w \in WorkerIds :
                /\ workers[w].pc = "unborn"
                /\ \A v \in WorkerIds : v < w => workers[v].pc # "unborn"

\* where start_processing_task reaches update_task_status(PROCESSING)
ReadyToProcess(req) ==
  \/ req.pc = "got" /\ ~NeedsDetection(req)
  \/ req.pc = "detected" /\ ~WantsRegionUpdate(req)
  \/ req.pc = "regions_done"

\* start_processing_task: update_task_status(PROCESSING), then the thread is
\* created, entered in _processing_tasks and started
StartProcessing(t) ==
  /\ ReadyToProcess(startReq[t])
  /\ \E w \in WorkerIds : workers[w].pc = "unborn"
  /\ StoreUpdate(t, PROCESSING, NoProgress, NoText, NoText)
  /\ processing_tasks' =
       [x \in DOMAIN processing_tasks \cup {t} |->
          IF x = t THEN FreeWorker ELSE processing_tasks[x]]
  /\ workers' = [workers EXCEPT ![FreeWorker] =
                   [pc |-> "get_task", task |-> t, sub_area |-> RegNone]]
  /\ startReq' = [startReq EXCEPT ![t] = IdleStart]
  /\ UNCHANGED <<issued, uploaded, remover_instances, detReq, delReq, canReq>>
  /\ UNCHANGED <<lockVars, engineVars>>

\* ------------------------------------------------- POST /detect-subtitles
\* the route's get_task (a missing task is answered 404 with no change of
\* state), then detect_subtitles up to DETECTING
DetectRoute(t) ==
  /\ Receive
  /\ detReq[t] = "idle"
  /\ HasTask(t)
  /\ StoreUpdate(t, DETECTING, NoProgress, NoText, NoText)
  /\ detReq' = [detReq EXCEPT ![t] = "analyze"]
  /\ UNCHANGED <<uploaded, processing_tasks, remover_instances, workers,
                 startReq, delReq, canReq>>
  /\ UNCHANGED <<lockVars, engineVars>>

\* the detector answers; the route replies with the result
DetectRouteResult(t, outcome) ==
  /\ detReq[t] = "analyze"
  /\ DetectResultUpdate(t, outcome)
  /\ detReq' = [detReq EXCEPT ![t] = "idle"]
  /\ UNCHANGED <<issued, uploaded, processing_tasks, remover_instances, workers,
                 startReq, delReq, canReq>>
  /\ UNCHANGED <<lockVars, engineVars>>

\* ------------------------------------------------- DELETE /task/{task_id}
\* routes/task.py delete_task: a PROCESSING task may not be deleted
DeleteAllowed(task) == task.status # PROCESSING

\* the route's get_task and status check (a missing task is answered 404 with
\* no change of state); "rejected" is the HTTPException 400 on its way out
DeleteRoute(t) ==
  /\ Receive
  /\ delReq[t] = "idle"
  /\ HasTask(t)
  /\ delReq' = [delReq EXCEPT ![t] =
                  IF DeleteAllowed(tasks[t]) THEN "checked" ELSE "rejected"]
  /\ UNCHANGED <<tasks, uploaded, now, processing_tasks, remover_instances,
                 workers, startReq, detReq, canReq>>
  /\ UNCHANGED <<lockVars, engineVars>>

\* the 400 reply is sent: the request is over
DeleteRejected(t) ==
  /\ delReq[t] = "rejected"
  /\ delReq' = [delReq EXCEPT ![t] = "idle"]
  /\ UNCHANGED <<issued, tasks, uploaded, now, processing_tasks, remover_instances,
                 workers, startReq, detReq, canReq>>
  /\ UNCHANGED <<lockVars, engineVars>>

\* TaskService.delete_task under the lock, then the 200 reply
DeleteApply(t) ==
  /\ delReq[t] = "checked"
  /\ delete_task(t)
  /\ delReq' = [delReq EXCEPT ![t] = "idle"]
  /\ UNCHANGED <<issued, uploaded, now, processing_tasks, remover_instances, workers,
                 startReq, detReq, canReq>>
  /\ UNCHANGED <<lockVars, engineVars>>

\* --------------------------------------------- POST /task/{task_id}/cancel
\* the cancel route without its status check
CancelAllowed_any(task) == TRUE

\* routes/task.py cancel_task: only a PROCESSING task may be cancelled
CancelAllowed(task) == task.status = PROCESSING

\* the route's get_task and status check (a missing task is answered 404 with
\* no change of state); "rejected" is the HTTPException 400 on its way out
CancelRoute(t) ==
  /\ Receive
  /\ canReq[t] = "idle"
  /\ HasTask(t)
  /\ canReq' = [canReq EXCEPT ![t] =
                  IF CancelAllowed(tasks[t]) THEN "checked" ELSE "rejected"]
  /\ UNCHANGED <<tasks, uploaded, now, processing_tasks, remover_instances,
                 workers, startReq, detReq, delReq>>
  /\ UNCHANGED <<lockVars, engineVars>>

\* the 400 reply is sent: the request is over
CancelRejected(t) ==
  /\ canReq[t] = "rejected"
  /\ canReq' = [canReq EXCEPT ![t] = "idle"]
  /\ UNCHANGED <<issued, tasks, uploaded, now, processing_tasks, remover_instances,
                 workers, startReq, detReq, delReq>>
  /\ UNCHANGED <<lockVars, engineVars>>

\* TaskService.cancel_task under the lock, then the 200 reply
CancelApply(t) ==
  /\ canReq[t] = "checked"
  /\ cancel_task(t)
  /\ canReq' = [canReq EXCEPT ![t] = "idle"]
  /\ UNCHANGED <<issued, uploaded, processing_tasks, remover_instances, workers,
                 startReq, detReq, delReq>>
  /\ UNCHANGED <<lockVars, engineVars>>

\* ---------------------------------------------------------- worker thread
\* _process_video_sync: [x1, y1, x2, y2] -> (ymin, ymax, xmin, xmax)
Min(a, b) == IF a <= b THEN a ELSE b
Max(a, b) == IF a >= b THEN a ELSE b
\* the corners taken as given: (y1, y2, x1, x2)
Area_as_given(r) == <<r[2], r[4], r[1], r[3]>>

Area(r) == <<Min(r[2], r[4]), Max(r[2], r[4]), Min(r[1], r[3]), Max(r[1], r[3])>>

\* the loop over task.subtitle_regions: entries of length 4 are converted,
\* the others are skipped
RECURSIVE all_areas(_)
all_areas(rs) ==
  IF rs = <<>> THEN <<>>
  ELSE (IF Len(Head(rs)) = 4 THEN <<Area(Head(rs))>> ELSE <<>>)
       \o all_areas(Tail(rs))

\* sub_area as handed to the remover: None unless some entry was valid
SubArea(regions) ==
  IF regions.kind = "none" \/ regions.list = <<>> \/ all_areas(regions.list) = <<>>
    THEN RegNone
    ELSE RegList(all_areas(regions.list))

\* Thread.is_alive()
IsAlive(w) == workers[w].pc \notin {"unborn", "done"}

\* get_task in the thread; a missing task returns at once (to the finally
\* block); otherwise the regions are read and converted
WorkerGetTask(w) ==
  /\ workers[w].pc = "get_task"
  /\ workers' = [workers EXCEPT ![w] =
       IF HasTask(workers[w].task)
         THEN [pc |-> "prepared", task |-> workers[w].task,
               sub_area |-> SubArea(tasks[workers[w].task].subtitle_regions)]
         ELSE [pc |-> "finally", task |-> workers[w].task,
               sub_area |-> workers[w].sub_area]]
  /\ UNCHANGED <<issued, tasks, uploaded, now, processing_tasks, remover_instances,
                 startReq, detReq, delReq, canReq>>
  /\ UNCHANGED <<lockVars, engineVars>>

\* the remover is built and entered in _remover_instances
WorkerCreateRemover(w) ==
  /\ workers[w].pc = "prepared"
  /\ remover_instances' =
       [x \in DOMAIN remover_instances \cup {workers[w].task} |->
          IF x = workers[w].task THEN w ELSE remover_instances[x]]
  /\ workers' = [workers EXCEPT ![w].pc = "run"]
  /\ UNCHANGED <<issued, tasks, uploaded, now, processing_tasks, startReq, detReq,
                 delReq, canReq>>
  /\ UNCHANGED <<lockVars, engineVars>>

\* progress_callback during remover.run(): update_task_progress
WorkerProgress(w, p) ==
  /\ workers[w].pc = "run"
  /\ update_task_progress(workers[w].task, p)
  /\ UNCHANGED <<issued, uploaded, processing_tasks, remover_instances, workers,
                 startReq, detReq, delReq, canReq>>
  /\ UNCHANGED <<lockVars, engineVars>>

\* remover.run() returns: COMPLETED when the output file exists, FAILED
\* otherwise
WorkerRunReturns(w, output_exists) ==
  /\ workers[w].pc = "run"
  /\ IF output_exists
       THEN StoreUpdate(workers[w].task, COMPLETED, 100, NoText, "output")
       ELSE StoreUpdate(workers[w].task, FAILED, NoProgress, MsgNoOutput, NoText)
  /\ workers' = [workers EXCEPT ![w].pc = "finally", ![w].sub_area = RegNone]
  /\ UNCHANGED <<issued, uploaded, processing_tasks, remover_instances, startReq,
                 detReq, delReq, canReq>>
  /\ UNCHANGED <<lockVars, engineVars>>

\* an exception in the try block (building the remover, or remover.run()):
\* FAILED with str(e)
WorkerException(w, text) ==
  /\ workers[w].pc \in {"prepared", "run"}
  /\ StoreUpdate(workers[w].task, FAILED, NoProgress, text, NoText)
  /\ workers' = [workers EXCEPT ![w].pc = "finally", ![w].sub_area = RegNone]
  /\ UNCHANGED <<issued, uploaded, processing_tasks, remover_instances, startReq,
                 detReq, delReq, canReq>>
  /\ UNCHANGED <<lockVars, engineVars>>

\* the finally block: both registry entries of the task id are deleted
WorkerFinally(w) ==
  /\ workers[w].pc = "finally"
  /\ processing_tasks' = [x \in DOMAIN processing_tasks \ {workers[w].task} |->
                            processing_tasks[x]]
  /\ remover_instances' = [x \in DOMAIN remover_instances \ {workers[w].task} |->
                             remover_instances[x]]
  /\ workers' = [workers EXCEPT ![w].pc = "done"]
  /\ UNCHANGED <<issued, tasks, uploaded, now, startReq, detReq, delReq, canReq>>
  /\ UNCHANGED <<lockVars, engineVars>>

\* ------------------------------------------------------------------ Next
Next ==
  \/ \E t \in TaskIds, r \in UploadRegions, a \in BOOLEAN : Upload(t, r, a)
  \/ \E t \in TaskIds, a \in BOOLEAN : StartRoute(t, a)
  \/ \E t \in TaskIds : StartDetecting(t)
  \/ \E t \in TaskIds : StartDetectBegin(t)
  \/ \E t \in TaskIds, o \in DetectOutcomes : StartDetectResult(t, o)
  \/ \E t \in TaskIds : StartUpdateRegions(t)
  \/ \E t \in TaskIds : StartProcessing(t)
  \/ \E t \in TaskIds : DetectRoute(t)
  \/ \E t \in TaskIds, o \in DetectOutcomes : DetectRouteResult(t, o)
  \/ \E t \in TaskIds : DeleteRoute(t)
  \/ \E t \in TaskIds : DeleteRejected(t)
  \/ \E t \in TaskIds : DeleteApply(t)
  \/ \E t \in TaskIds : CancelRoute(t)
  \/ \E t \in TaskIds : CancelRejected(t)
  \/ \E t \in TaskIds : CancelApply(t)
  \/ \E w \in WorkerIds : WorkerGetTask(w)
  \/ \E w \in WorkerIds : WorkerCreateRemover(w)
  \/ \E w \in WorkerIds, p \in ProgressValues : WorkerProgress(w, p)
  \/ \E w \in WorkerIds, e \in BOOLEAN : WorkerRunReturns(w, e)
  \/ \E w \in WorkerIds, x \in ExceptionTexts : WorkerException(w, x)
  \/ \E w \in WorkerIds : WorkerFinally(w)

Spec == Init /\ [][Next]_vars

\* ================================================================ claims
\* a task that is in the store before and after a step
Kept(t) == t \in DOMAIN tasks /\ t \in DOMAIN tasks'

\* C1 (as the spec states it, refuted by the code): a task's status changes
\* only along PENDING->DETECTING->PROCESSING->{COMPLETED,FAILED} or
\* PENDING->PROCESSING->{COMPLETED,FAILED}; DETECTING->FAILED (a detection
\* failure, section 4.2) is counted as allowed too.
LegalTransitions ==
  { <<PENDING, DETECTING>>, <<DETECTING, PROCESSING>>, <<PENDING, PROCESSING>>,
    <<PROCESSING, COMPLETED>>, <<PROCESSING, FAILED>>, <<DETECTING, FAILED>> }

C1_OnlyLegalTransitions ==
  [][\A t \in TaskIds : Kept(t) =>
        \/ tasks'[t].status = tasks[t].status
        \/ <<tasks[t].status, tasks'[t].status>> \in LegalTransitions]_vars

\* C2 (as the spec states it, refuted by the code): once a task is COMPLETED
\* or FAILED no step changes its status.
C2_TerminalIsFinal ==
  [][\A t \in TaskIds :
        Kept(t) /\ tasks[t].status \in {COMPLETED, FAILED}
          => tasks'[t].status = tasks[t].status]_vars

\* C3: a cancel request that finds the task in a status other than PROCESSING
\* is rejected (HTTP 400), and no step of that request changes the store.
C3_CancelNonProcessingRejected ==
  [][\A t \in TaskIds :
        /\ (canReq[t] = "idle" /\ canReq'[t] # "idle"
              /\ HasTask(t) /\ tasks[t].status # PROCESSING)
             => canReq'[t] = "rejected" /\ tasks' = tasks
        /\ (canReq[t] = "rejected" /\ canReq'[t] # "rejected")
             => canReq'[t] = "idle" /\ tasks' = tasks]_vars

\* C3 witness: a cancel request on a PENDING task has been rejected
C3_Witness ==
  \E t \in TaskIds :
     HasTask(t) /\ canReq[t] = "rejected" /\ tasks[t].status = PENDING

\* C4 (as the spec states it, refuted by the code): no task is removed from the
\* store while its status is PROCESSING.
C4_NoDeleteWhileProcessing ==
  [][\A t \in TaskIds :
        (t \in DOMAIN tasks /\ t \notin DOMAIN tasks')
          => tasks[t].status # PROCESSING]_vars

\* C5 (as the spec states it, refuted by the code): at most one live worker
\* thread per task.
C5_OneWorkerPerTask ==
  \A t \in TaskIds :
     Cardinality({w \in WorkerIds : IsAlive(w) /\ workers[w].task = t}) <= 1

\* C6: started_at is written once: a step that leaves the task PROCESSING
\* leaves it stamped, a stamp is written only by a step to PROCESSING, with
\* the clock's reading, and a stamp once written never changes.
C6_StartedAtSetOnce ==
  [][\A t \in TaskIds : Kept(t) =>
        /\ tasks[t].started_at # NoTime
             => tasks'[t].started_at = tasks[t].started_at
        /\ tasks'[t].status = PROCESSING => tasks'[t].started_at # NoTime
        /\ tasks'[t].started_at # tasks[t].started_at
             => tasks'[t].status = PROCESSING /\ tasks'[t].started_at = now]_vars

\* C6 witness: PROCESSING signalled again after the task had already reached a
\* terminal status, started_at still being the earlier stamp
C6_Witness ==
  \E t \in TaskIds :
     /\ HasTask(t)
     /\ tasks[t].status = PROCESSING
     /\ tasks[t].completed_at # NoTime
     /\ tasks[t].started_at # NoTime
     /\ tasks[t].started_at < tasks[t].completed_at

\* C7 (as the spec states it, refuted by the code): completed_at is written
\* once, by a step out of PROCESSING or DETECTING, and never rewritten.
C7_CompletedAtWrittenOnce ==
  [][\A t \in TaskIds : Kept(t) =>
        /\ tasks[t].completed_at # NoTime
             => tasks'[t].completed_at = tasks[t].completed_at
        /\ tasks'[t].completed_at # tasks[t].completed_at
             => tasks[t].status \in {PROCESSING, DETECTING}]_vars

\* a step in which the detector's answer is stored, for either caller
DetectionAnswered(t) ==
  \/ detReq[t] = "analyze" /\ detReq'[t] = "idle"
  \/ startReq[t].pc = "analyze" /\ startReq'[t].pc = "detected"

\* C8 (as the spec states it, refuted by the code): no answer of the detector
\* puts the task into FAILED or changes its error_message.
C8_DetectionFailureNotTaskFailure ==
  [][\A t \in TaskIds :
        (Kept(t) /\ DetectionAnswered(t))
          => /\ tasks'[t].status # FAILED
             /\ tasks'[t].error_message = tasks[t].error_message]_vars

\* the step of a start request that follows a detection without subtitles
\* (failed, or has_subtitles False)
AfterEmptyDetection(t) ==
  /\ startReq[t].pc = "detected"
  /\ ~startReq[t].has_subtitles
  /\ startReq'[t] # startReq[t]

\* C9 (as the spec states it, refuted by the code): after a failed or empty
\* auto-detection the start operation moves the task to PROCESSING and the
\* task has no subtitle regions.
C9_ProceedsWithNoRegions ==
  [][\A t \in TaskIds :
        (Kept(t) /\ AfterEmptyDetection(t))
          => /\ tasks'[t].status = PROCESSING
             /\ tasks'[t].subtitle_regions = RegNone]_vars

\* C9 amended: after a failed or empty auto-detection the next step of the
\* start operation is the one to PROCESSING, spawning the worker, and neither
\* that step nor the storing of the detector's answer changes the task's
\* subtitle_regions: the task carries no regions unless it already had some.
C9_ProceedsWithRegionsUnchanged ==
  [][\A t \in TaskIds :
        /\ AfterEmptyDetection(t)
             => /\ startReq'[t].pc = "idle"
                /\ \E w \in WorkerIds : workers[w].pc = "unborn"
                                        /\ workers'[w].pc = "get_task"
                /\ Kept(t) => /\ tasks'[t].status = PROCESSING
                              /\ tasks'[t].subtitle_regions
                                   = tasks[t].subtitle_regions
        /\ (Kept(t) /\ DetectionAnswered(t))
             => tasks'[t].subtitle_regions = tasks[t].subtitle_regions]_vars

\* C9 witness: a task with regions supplied at upload is PROCESSING, with the
\* detection failure still recorded and the supplied regions still in place
C9_Witness ==
  \E t \in TaskIds :
     /\ HasTask(t)
     /\ tasks[t].status = PROCESSING
     /\ tasks[t].error_message \in {MsgDetectFailed, MsgDetectException}
     /\ tasks[t].subtitle_regions # RegNone
     /\ startReq[t].pc = "idle"
     /\ issued = 1

\* C10: a step makes a task DETECTING only as part of a detection that was
\* asked for (a start request whose auto-detect flag is set, or a
\* detect-subtitles request), and a start request without the flag takes the
\* task to PROCESSING in its one store step.
C10_DetectingOnlyOnRequest ==
  [][\A t \in TaskIds :
        /\ (Kept(t) /\ tasks'[t].status = DETECTING
                    /\ tasks[t].status # DETECTING)
             => \/ detReq[t] = "idle" /\ detReq'[t] = "analyze"
                \/ startReq[t].auto /\ startReq[t].pc \in {"got", "detect"}
                                    /\ startReq'[t].pc # startReq[t].pc
        /\ (startReq[t].pc = "got" /\ ~startReq[t].auto
              /\ startReq'[t] # startReq[t])
             => /\ startReq'[t].pc = "idle"
                /\ Kept(t) => tasks'[t].status = PROCESSING]_vars

\* C10 witness: a start request with the auto-detect flag has made the task
\* DETECTING
C10_Witness ==
  \E t \in TaskIds :
     /\ HasTask(t)
     /\ tasks[t].status = DETECTING
     /\ startReq[t].auto
     /\ startReq[t].pc = "detect"

\* the step of a cancel request that passed the route's check: cancel_task
CancelApplied(t) == canReq[t] = "checked" /\ canReq'[t] = "idle"

WorkerEnds(w) ==
  workers[w].pc \in {"prepared", "run"} /\ workers'[w].pc = "finally"

\* C12 (as the spec states it, refuted by the code): a worker that ends
\* without completing the task leaves it FAILED with a non-empty error_message,
\* and a worker thread starts only as a step of a start request.
C12_WorkerFailureRecorded ==
  [][\A w \in WorkerIds :
        /\ (WorkerEnds(w) /\ Kept(workers[w].task))
             => LET task == tasks'[workers[w].task]
                IN \/ task.status = COMPLETED
                   \/ /\ task.status = FAILED
                      /\ task.error_message \notin {NoText, ""}
        /\ (workers[w].pc = "unborn" /\ workers'[w].pc # "unborn")
             => \E t \in TaskIds : /\ startReq[t].pc # "idle"
                                   /\ startReq'[t].pc = "idle"
                                   /\ workers'[w].task = t]_vars

\* the entries of a registry that a step removes
Released(registry, registry2) ==
  {t \in DOMAIN registry : t \notin DOMAIN registry2}

\* C13 (as the spec states it, refuted by the code): a registry entry is
\* removed only by the exit (the finally block) of the worker it belongs to,
\* and a worker that has exited has no entry left in either registry.
C13_RegistryReleasedByOwner ==
  [][/\ \A t \in Released(processing_tasks, processing_tasks') :
           LET w == processing_tasks[t]
           IN workers[w].pc = "finally" /\ workers'[w].pc = "done"
     /\ \A t \in Released(remover_instances, remover_instances') :
           LET w == remover_instances[t]
           IN workers[w].pc = "finally" /\ workers'[w].pc = "done"
     /\ \A w \in WorkerIds : workers'[w].pc = "done" =>
           /\ \A t \in DOMAIN processing_tasks' : processing_tasks'[t] # w
           /\ \A t \in DOMAIN remover_instances' : remover_instances'[t] # w]_vars

\* ==================================================== the lock, step by step
\* TaskService._task_lock is an asyncio.Lock, shared by the request loop and by
\* the worker threads, each of which runs the store's coroutines on an event
\* loop of its own.  An asyncio.Lock keeps coroutines of ONE loop apart; it has
\* no synchronization between threads: acquire() tests _locked and then sets
\* it, two steps for a caller on another thread.  Here the calls of the store
\* are followed at that grain, for one PROCESSING task with a cancellation
\* arriving on the request loop while the worker thread reports its result.
LockCallers == {"loop", "worker"}

\* update_task_status, its three parts in the order of the code
write_status(task, status) == [task EXCEPT !.status = status]

write_fields(task, progress, error_message, output_path) ==
  [task EXCEPT
     !.progress = IF progress # NoProgress THEN progress ELSE @,
     !.error_message = IF error_message # NoText THEN error_message ELSE @,
     !.output_path = IF output_path # NoText THEN output_path ELSE @]

write_stamp(task, status, clock) ==
  IF status = PROCESSING /\ task.started_at = NoTime
    THEN [task EXCEPT !.started_at = clock]
    ELSE IF status \in {COMPLETED, FAILED}
           THEN [task EXCEPT !.completed_at = clock]
           ELSE task

\* the arguments of the call each thread makes
CancelCall ==
  [pc |-> "idle", status |-> FAILED, progress |-> NoProgress,
   error_message |-> MsgCancelled, output_path |-> NoText]
CompletedCall ==
  [pc |-> "idle", status |-> COMPLETED, progress |-> 100,
   error_message |-> NoText, output_path |-> "output"]
NoOutputCall ==
  [pc |-> "idle", status |-> FAILED, progress |-> NoProgress,
   error_message |-> MsgNoOutput, output_path |-> NoText]

\* the task both calls are about: PROCESSING since reading 1 of the clock,
\* half done
LockTask ==
  [NewTask(RegNone, FALSE) EXCEPT !.status = PROCESSING, !.progress = 50,
                                  !.started_at = 1]

LockInit ==
  /\ issued = 0
  /\ uploaded = {"t1"}
  /\ tasks = [t \in {"t1"} |-> LockTask]
  /\ now = 2
  /\ processing_tasks = [t \in {"t1"} |-> 1]
  /\ remover_instances = [t \in {"t1"} |-> 1]
  /\ workers = [w \in WorkerIds |->
                  IF w = 1 THEN [pc |-> "run", task |-> "t1", sub_area |-> RegNone]
                  ELSE [pc |-> "unborn", task |-> NoTaskId, sub_area |-> RegNone]]
  /\ startReq = [t \in TaskIds |-> IdleStart]
  /\ detReq = [t \in TaskIds |-> "idle"]
  /\ delReq = [t \in TaskIds |-> "idle"]
  /\ canReq = [t \in TaskIds |-> "idle"]
  /\ task_lock = FALSE
  /\ \E call \in {CompletedCall, NoOutputCall} :
        callers = [c \in LockCallers |-> IF c = "loop" THEN CancelCall ELSE call]
  /\ snapshot = <<>>
  /\ engine = NoText
  /\ analysis = NoText

\* the statements of a call that lie inside `async with cls._task_lock`
InCritical(c) == callers[c].pc \in {"status", "fields", "stamp", "release"}

\* asyncio.Lock.acquire: `if not self._locked ...`; a caller that finds the
\* lock taken waits for its release
AcquireTest(c) ==
  /\ callers[c].pc = "idle"
  /\ callers' = [callers EXCEPT ![c].pc = IF task_lock THEN "wait" ELSE "set"]
  /\ UNCHANGED <<tasks, now, task_lock, snapshot, lifecycleVars, engineVars>>

\* asyncio.Lock.acquire: the waiter is woken by the release
AcquireWake(c) ==
  /\ callers[c].pc = "wait"
  /\ ~task_lock
  /\ callers' = [callers EXCEPT ![c].pc = "set"]
  /\ UNCHANGED <<tasks, now, task_lock, snapshot, lifecycleVars, engineVars>>

\* asyncio.Lock.acquire: `self._locked = True`
AcquireSet(c) ==
  /\ callers[c].pc = "set"
  /\ task_lock' = TRUE
  /\ callers' = [callers EXCEPT ![c].pc = "status"]
  /\ UNCHANGED <<tasks, now, snapshot, lifecycleVars, engineVars>>

\* update_task_status: `task.status = status`
WriteStatus(c) ==
  /\ callers[c].pc = "status"
  /\ tasks' = [tasks EXCEPT !["t1"] = write_status(@, callers[c].status)]
  /\ callers' = [callers EXCEPT ![c].pc = "fields"]
  /\ UNCHANGED <<now, task_lock, snapshot, lifecycleVars, engineVars>>

\* update_task_status: progress, error_message, output_path
WriteFields(c) ==
  /\ callers[c].pc = "fields"
  /\ tasks' = [tasks EXCEPT !["t1"] =
                 write_fields(@, callers[c].progress, callers[c].error_message,
                              callers[c].output_path)]
  /\ callers' = [callers EXCEPT ![c].pc = "stamp"]
  /\ UNCHANGED <<now, task_lock, snapshot, lifecycleVars, engineVars>>

\* update_task_status: the timestamps
WriteStamp(c) ==
  /\ callers[c].pc = "stamp"
  /\ tasks' = [tasks EXCEPT !["t1"] = write_stamp(@, callers[c].status, now)]
  /\ now' = IF ReadsClock(tasks["t1"], callers[c].status) THEN now + 1 ELSE now
  /\ callers' = [callers EXCEPT ![c].pc = "release"]
  /\ UNCHANGED <<task_lock, snapshot, lifecycleVars, engineVars>>

\* asyncio.Lock.release on leaving the `async with` block
Release(c) ==
  /\ callers[c].pc = "release"
  /\ task_lock' = FALSE
  /\ callers' = [callers EXCEPT ![c].pc = "done"]
  /\ UNCHANGED <<tasks, now, snapshot, lifecycleVars, engineVars>>

\* get_task / get_task_list / get_task_statistics on the request loop: the
\* task is read with no lock taken.  The loop runs one coroutine at a time, so
\* the read falls outside the loop's own critical section, but anywhere in the
\* worker thread's.
ReadTask ==
  /\ ~InCritical("loop")
  /\ callers["loop"].pc # "set"
  /\ snapshot' = <<tasks["t1"]>>
  /\ UNCHANGED <<tasks, now, task_lock, callers, lifecycleVars, engineVars>>

LockNext ==
  \/ \E c \in LockCallers : AcquireTest(c)
  \/ \E c \in LockCallers : AcquireWake(c)
  \/ \E c \in LockCallers : AcquireSet(c)
  \/ \E c \in LockCallers : WriteStatus(c)
  \/ \E c \in LockCallers : WriteFields(c)
  \/ \E c \in LockCallers : WriteStamp(c)
  \/ \E c \in LockCallers : Release(c)
  \/ ReadTask

SpecLock == LockInit /\ [][LockNext]_vars

\* the call of a thread applied as a whole at reading `clock`
WholeCall(task, call, clock) ==
  update_task_status(task, call.status, call.progress, call.error_message,
                     call.output_path, clock)

\* the states of the task that a linearized history of the two calls has:
\* before both, after either one, after both in either order
LinearizedStates ==
  LET a == callers["loop"]
      b == callers["worker"]
  IN { LockTask, WholeCall(LockTask, a, 2), WholeCall(LockTask, b, 2),
       WholeCall(WholeCall(LockTask, a, 2), b, 3),
       WholeCall(WholeCall(LockTask, b, 2), a, 3) }

\* C14 (as the spec states it, refuted by the code): the calls of the store
\* exclude each other, between the request loop and a worker thread too, and
\* whoever reads the task sees it as it is before or after a whole call.
C14_StoreCallsLinearized ==
  /\ ~(InCritical("loop") /\ InCritical("worker"))
  /\ \A i \in DOMAIN snapshot : snapshot[i] \in LinearizedStates

\* ========================================================= the expiry sweep
\* TaskService.cleanup_expired_tasks, applied to stores of two tasks in every
\* status; here the clock counts hours.
MaxSweepClock == 27                  \* the latest hour a sweep runs at
FILE_RETENTION_HOURS == 24           \* config.FILE_RETENTION_HOURS
SweepTaskIds == {"t1", "t2"}
SweepStamps == {NoTime, 1, 2, 3}     \* completed_at: None, or an hour
SweepStart == 25                     \* the hour the run starts at

\* a task as the lifecycle can leave it: a COMPLETED or FAILED task has its
\* completed_at stamped; any other status may carry the stamp of an earlier
\* failure
SweepTasks ==
  { [NewTask(RegNone, FALSE) EXCEPT !.status = s, !.completed_at = c] :
      <<s, c>> \in { x \in TaskStatus \X SweepStamps :
                       x[1] \in {COMPLETED, FAILED} => x[2] # NoTime } }

SweepInit ==
  /\ issued = 0
  /\ uploaded = SweepTaskIds
  /\ tasks \in [SweepTaskIds -> SweepTasks]
  /\ now = SweepStart
  /\ processing_tasks = <<>>
  /\ remover_instances = <<>>
  /\ workers = [w \in WorkerIds |-> [pc |-> "unborn", task |-> NoTaskId,
                                      sub_area |-> RegNone]]
  /\ startReq = [t \in TaskIds |-> IdleStart]
  /\ detReq = [t \in TaskIds |-> "idle"]
  /\ delReq = [t \in TaskIds |-> "idle"]
  /\ canReq = [t \in TaskIds |-> "idle"]
  /\ task_lock = FALSE
  /\ callers = <<>>
  /\ snapshot = <<>>
  /\ engine = NoText
  /\ analysis = NoText

\* cleanup_expired_tasks deleting by age alone
IsExpired_any_status(task, expired_threshold) ==
  task.completed_at # NoTime /\ task.completed_at < expired_threshold

\* cleanup_expired_tasks: `task.status in [COMPLETED, FAILED] and
\* task.completed_at and task.completed_at < expired_threshold`
IsExpired(task, expired_threshold) ==
  /\ task.status \in {COMPLETED, FAILED}
  /\ task.completed_at # NoTime
  /\ task.completed_at < expired_threshold

\* cleanup_expired_tasks: the expired tasks are collected, then deleted
cleanup_expired_tasks ==
  LET expired_threshold == now - FILE_RETENTION_HOURS
      expired_tasks == {t \in DOMAIN tasks : IsExpired(tasks[t], expired_threshold)}
  IN tasks' = [t \in DOMAIN tasks \ expired_tasks |-> tasks[t]]

\* POST /tasks/cleanup
Sweep ==
  /\ cleanup_expired_tasks
  /\ UNCHANGED <<now, lifecycleVars, lockVars, engineVars>>

\* an hour passes
HourPasses ==
  /\ now < MaxSweepClock
  /\ now' = now + 1
  /\ UNCHANGED <<tasks, lifecycleVars, lockVars, engineVars>>

SweepNext == Sweep \/ HourPasses

SpecSweep == SweepInit /\ [][SweepNext]_vars

\* C15: with no deletion request, a task leaves the store only in a sweep, and
\* a sweep removes exactly the tasks that are COMPLETED or FAILED with a
\* completed_at more than the retention time before the sweep: every PENDING,
\* DETECTING and PROCESSING task and every younger COMPLETED or FAILED task
\* stays, unchanged.
C15_SweepRemovesExactlyExpired ==
  [][/\ DOMAIN tasks' \subseteq DOMAIN tasks
     /\ \A t \in DOMAIN tasks :
          LET old == /\ tasks[t].status \in {COMPLETED, FAILED}
                     /\ tasks[t].completed_at # NoTime
                     /\ tasks[t].completed_at + FILE_RETENTION_HOURS < now
          IN /\ t \notin DOMAIN tasks' => old /\ now' = now
             /\ (old /\ now' = now) => t \notin DOMAIN tasks'
             /\ t \in DOMAIN tasks' => tasks'[t] = tasks[t]]_vars

\* C15 witness: a sweep has removed t1 and left t2, a PROCESSING task that
\* carries a completed_at older than the retention time
C15_Witness ==
  /\ "t1" \notin DOMAIN tasks
  /\ "t2" \in DOMAIN tasks
  /\ tasks["t2"].status = PROCESSING
  /\ tasks["t2"].completed_at = 1
  /\ now - FILE_RETENTION_HOURS > 1

\* ============================================ region consolidation engine
\* The engine works on detection hits and regions alone: while it runs, the
\* store, the requests and the lock are as they are at start-up.
StoreAtRest ==
  /\ issued = 0
  /\ tasks = <<>>
  /\ uploaded = {}
  /\ now = 1
  /\ processing_tasks = <<>>
  /\ remover_instances = <<>>
  /\ workers = [w \in WorkerIds |-> [pc |-> "unborn", task |-> NoTaskId,
                                      sub_area |-> RegNone]]
  /\ startReq = [t \in TaskIds |-> IdleStart]
  /\ detReq = [t \in TaskIds |-> "idle"]
  /\ delReq = [t \in TaskIds |-> "idle"]
  /\ canReq = [t \in TaskIds |-> "idle"]
  /\ task_lock = FALSE
  /\ callers = <<>>
  /\ snapshot = <<>>

storeVars == <<tasks, now, lifecycleVars, lockVars>>

Abs(a) == IF a < 0 THEN -a ELSE a

\* sequences of length at most n over the set S
SeqsUpTo(S, n) == UNION {[1..k -> S] : k \in 0..n}

\* text_content is a string: a sequence of characters
NoChars == <<>>
Separator == <<" ", "|", " ">>           \* " | "

\* Python's `a in b` for strings
IsSubstring(a, b) ==
  \E i \in 0..(Len(b) - Len(a)) : SubSeq(b, i + 1, i + Len(a)) = a

\* ------------------------------------------ merge_overlapping_regions
MaxRegions == 3       \* regions in a list handed to the merge pass
MaxPasses == 2        \* merge passes over one list

\* TimedSubtitleRegion values: three start frames, two durations, three
\* positions 15 pixels apart, and an empty text or one of two texts (with
\* confidences, in percent, whose means are exact)
RegionPool ==
  { [start_frame |-> s, end_frame |-> s + d, x |-> x, y |-> 400,
     width |-> 300, height |-> 40, confidence |-> v[1], text_content |-> v[2]] :
      s \in {0, 10, 30}, d \in {0, 15}, x \in {100, 115, 130},
      v \in { <<40, NoChars>>, <<80, <<"a">> >>, <<40, <<"b">> >> } }

TimeThresholds == {0, 10}     \* time_threshold: none, and the default

\* sorted(self.timed_regions, key=lambda r: r.start_frame): a stable sort
RECURSIVE InsertByStart(_, _)
InsertByStart(r, sorted) ==
  IF sorted = <<>> THEN <<r>>
  ELSE IF sorted[Len(sorted)].start_frame <= r.start_frame
         THEN Append(sorted, r)
         ELSE Append(InsertByStart(r, SubSeq(sorted, 1, Len(sorted) - 1)),
                     sorted[Len(sorted)])

RECURSIVE SortByStart(_)
SortByStart(rs) ==
  IF rs = <<>> THEN <<>>
  ELSE InsertByStart(rs[Len(rs)], SortByStart(SubSeq(rs, 1, Len(rs) - 1)))

\* the test of the loop: similar position and size, and close in time
\* the spatial test alone, whatever the time gap
CanMerge_any_gap(last_region, region, time_threshold) ==
  /\ Abs(region.x - last_region.x) <= 20
  /\ Abs(region.y - last_region.y) <= 20
  /\ Abs(region.width - last_region.width) <= 30
  /\ Abs(region.height - last_region.height) <= 20

CanMerge(last_region, region, time_threshold) ==
  /\ Abs(region.x - last_region.x) <= 20
  /\ Abs(region.y - last_region.y) <= 20
  /\ Abs(region.width - last_region.width) <= 30
  /\ Abs(region.height - last_region.height) <= 20
  /\ region.start_frame - last_region.end_frame <= time_threshold

\* the merge branch: last_region takes the end frame, the mean confidence and,
\* unless empty or already contained, the text of region
Merged(last_region, region) ==
  [last_region EXCEPT
     !.end_frame = region.end_frame,
     !.confidence = (last_region.confidence + region.confidence) \div 2,
     !.text_content =
        IF region.text_content # NoChars
             /\ ~IsSubstring(region.text_content, last_region.text_content)
          THEN last_region.text_content \o Separator \o region.text_content
          ELSE last_region.text_content]

\* the loop body with the `else` lost: a merged region is appended as well
MergeStep_also_appends(merged, region, time_threshold) ==
  IF merged = <<>> THEN <<region>>
  ELSE LET last_region == merged[Len(merged)]
       IN IF CanMerge(last_region, region, time_threshold)
            THEN Append([merged EXCEPT ![Len(merged)] = Merged(last_region, region)],
                        region)
            ELSE Append(merged, region)

\* one turn of the loop over sorted_regions
MergeStep(merged, region, time_threshold) ==
  IF merged = <<>> THEN <<region>>
  ELSE LET last_region == merged[Len(merged)]
       IN IF CanMerge(last_region, region, time_threshold)
            THEN [merged EXCEPT ![Len(merged)] = Merged(last_region, region)]
            ELSE Append(merged, region)

RECURSIVE MergeLoop(_, _)
MergeLoop(sorted_regions, time_threshold) ==
  IF sorted_regions = <<>> THEN <<>>
  ELSE MergeStep(MergeLoop(SubSeq(sorted_regions, 1, Len(sorted_regions) - 1),
                           time_threshold),
                 sorted_regions[Len(sorted_regions)], time_threshold)

\* TimedSubtitleAnalysis.merge_overlapping_regions: the new timed_regions
merge_overlapping_regions(timed_regions, time_threshold) ==
  IF timed_regions = <<>> THEN timed_regions
  ELSE MergeLoop(SortByStart(timed_regions), time_threshold)

MergeInit ==
  /\ StoreAtRest
  /\ \E rs \in SeqsUpTo(RegionPool, MaxRegions), th \in TimeThresholds :
        /\ engine = [op |-> "merge", input |-> rs, time_threshold |-> th,
                     passes |-> 0]
        /\ analysis = [has_subtitles |-> rs # <<>>, timed_regions |-> rs]

\* analysis.merge_overlapping_regions(time_threshold)
MergePass ==
  /\ engine.passes < MaxPasses
  /\ analysis' = [analysis EXCEPT !.timed_regions =
                    merge_overlapping_regions(@, engine.time_threshold)]
  /\ engine' = [engine EXCEPT !.passes = @ + 1]
  /\ UNCHANGED storeVars

MergeNext == MergePass

SpecMerge == MergeInit /\ [][MergeNext]_vars

\* C16: a merge pass over the output of a merge pass (same time_threshold)
\* returns that output unchanged: same regions in the same order, with the
\* same frames, boxes, confidences and texts.
C16_MergeIdempotent ==
  [][engine.passes >= 1 => analysis'.timed_regions = analysis.timed_regions]_vars

\* C16 witness: three regions went in, the first pass merged two of them
\* (joining their texts), and a second pass has run
C16_Witness ==
  /\ engine.passes = 2
  /\ Len(engine.input) = 3
  /\ Len(analysis.timed_regions) = 2
  /\ analysis.timed_regions[1].text_content = <<"a">> \o Separator \o <<"b">>

\* ------------------------------------------------ the detectors' analyses
\* AlternativeSubtitleDetector._analyze_*_results and
\* GeminiTimedClient._parse_timed_response.  Confidences are in percent; the
\* synthetic labels of the regions are modelled without their frame numbers.
MaxHits == 3          \* detection hits in one batch

\* the video as cv2 reports it: 100x50 pixels, 50 or 200 frames, and a frame
\* rate of 2 or 4 (or 0, which cv2 reports when it cannot tell)
VideoWidth == 100
VideoHeight == 50
Videos ==
  { [width |-> VideoWidth, height |-> VideoHeight, fps |-> f, total_frames |-> n] :
      f \in {0, 2, 4}, n \in {50, 200} }

\* a hit in the bottom 30% of the frame, over 30% of its width, over 3 times
\* as wide as high
Hit(f, x) == [frame_no |-> f, x |-> x, y |-> 40, width |-> 40, height |-> 10,
              confidence |-> 80, text_content |-> NoChars]

\* hits of the local detectors: sampled frames of the video, boxes cut out of
\* the frame
LocalHits == { Hit(f, x) : f \in {0, 3, 9, 30}, x \in {0, 30, 60} }

\* entries of the remote model's answer: whatever the JSON says
RemoteHits == LocalHits \cup { Hit(260, 0), Hit(3, 90) }

\* hits in the order the detectors append them: frame after frame
FramesAscend(hits) ==
  \A i \in 1..(Len(hits) - 1) : hits[i].frame_no <= hits[i + 1].frame_no
FramesStrictlyAscend(hits) ==
  \A i \in 1..(Len(hits) - 1) : hits[i].frame_no < hits[i + 1].frame_no
AllLocal(hits) == \A i \in 1..Len(hits) : hits[i] \in LocalHits

\* int(fps * seconds) for seconds given in tenths
\* the duration cut to whole seconds before the multiplication
FramesIn_whole_seconds(fps, tenths) == fps * (tenths \div 10)

FramesIn(fps, tenths) == (fps * tenths) \div 10

\* int(total * percent / 100)
Percent(total, percent) == (total * percent) \div 100

RECURSIVE SumSeq(_)
SumSeq(ns) == IF ns = <<>> THEN 0 ELSE Head(ns) + SumSeq(Tail(ns))
\* int(np.mean(...)) of non-negative integers
Mean(ns) == SumSeq(ns) \div Len(ns)
MinOf(ns) == CHOOSE m \in {ns[i] : i \in 1..Len(ns)} :
               \A i \in 1..Len(ns) : m <= ns[i]
MaxOf(ns) == CHOOSE m \in {ns[i] : i \in 1..Len(ns)} :
               \A i \in 1..Len(ns) : m >= ns[i]

\* [r[field] for r in group]
FrameNos(group) == [i \in 1..Len(group) |-> group[i].frame_no]

\* the elements of a list at the given indexes, in list order
Pick(list, indexes) ==
  LET idx == SelectSeq([k \in 1..Len(list) |-> k], LAMBDA k : k \in indexes)
  IN [n \in 1..Len(idx) |-> list[idx[n]]]

\* what an analysis method hands back: the analysis, or an exception
Analysis(regions) ==
  [raised |-> FALSE, has_subtitles |-> Len(regions) > 0, timed_regions |-> regions]
Raised == [raised |-> TRUE, has_subtitles |-> FALSE, timed_regions |-> <<>>]

\* _create_default_analysis: one or two regions at the usual place of
\* subtitles, for videos long enough
create_default_analysis(video) ==
  LET box == [x |-> Percent(video.width, 5), y |-> Percent(video.height, 80),
              width |-> Percent(video.width, 90),
              height |-> Percent(video.height, 15),
              confidence |-> 80, text_content |-> <<"default">>]
      region1 == [start_frame |-> 0,
                  end_frame |-> Min(Percent(video.total_frames, 40),
                                    video.total_frames - 1)] @@ box
      region2 == [start_frame |-> Percent(video.total_frames, 60),
                  end_frame |-> Min(Percent(video.total_frames, 90),
                                    video.total_frames - 1)] @@ box
  IN Analysis((IF video.total_frames > 60 THEN <<region1>> ELSE <<>>)
              \o (IF video.total_frames > 120
                       /\ region2.start_frame < region2.end_frame
                    THEN <<region2>> ELSE <<>>))

\* the empty input answered with the default regions
create_empty_analysis_default(video) == create_default_analysis(video)

\* _create_empty_analysis
create_empty_analysis(video) == Analysis(<<>>)

\* _cluster_regions: the test of two hits against distance_threshold
\* similarity with the tolerance itself allowed
Similar_inclusive(region1, region2, distance_threshold) ==
  /\ Abs(region1.x - region2.x) <= distance_threshold
  /\ Abs(region1.y - region2.y) <= distance_threshold
  /\ Abs(region1.width - region2.width) <= distance_threshold
  /\ Abs(region1.height - region2.height) <= distance_threshold

Similar(region1, region2, distance_threshold) ==
  /\ Abs(region1.x - region2.x) < distance_threshold
  /\ Abs(region1.y - region2.y) < distance_threshold
  /\ Abs(region1.width - region2.width) < distance_threshold
  /\ Abs(region1.height - region2.height) < distance_threshold

\* _cluster_regions from index i on: every hit not yet used seeds a cluster
\* and takes with it all unused hits similar to it
RECURSIVE ClustersFrom(_, _, _, _)
ClustersFrom(regions, i, used, distance_threshold) ==
  IF i > Len(regions) THEN <<>>
  ELSE IF i \in used
         THEN ClustersFrom(regions, i + 1, used, distance_threshold)
         ELSE LET members ==
                    {j \in 1..Len(regions) :
                       /\ j \notin used \cup {i}
                       /\ Similar(regions[i], regions[j], distance_threshold)}
              IN <<Pick(regions, {i} \cup members)>>
                 \o ClustersFrom(regions, i + 1, used \cup {i} \cup members,
                                 distance_threshold)

cluster_regions(regions) == ClustersFrom(regions, 1, {}, 50)

\* _analyze_ocr_results: the region of one cluster
OcrRegion(cluster, video) ==
  LET frames == FrameNos(cluster)
      duration_frames == FramesIn(video.fps, 25)
  IN [start_frame |-> Max(0, MinOf(frames) - duration_frames \div 2),
      end_frame |-> Min(video.total_frames - 1,
                        MaxOf(frames) + duration_frames \div 2),
      x |-> Mean([i \in 1..Len(cluster) |-> cluster[i].x]),
      y |-> Mean([i \in 1..Len(cluster) |-> cluster[i].y]),
      width |-> Mean([i \in 1..Len(cluster) |-> cluster[i].width]),
      height |-> Mean([i \in 1..Len(cluster) |-> cluster[i].height]),
      confidence |-> Mean([i \in 1..Len(cluster) |-> cluster[i].confidence]),
      text_content |-> <<"ocr">>]

\* _analyze_ocr_results
analyze_ocr_results(regions, video) ==
  IF regions = <<>> THEN create_empty_analysis(video)
  ELSE LET clustered_regions == cluster_regions(regions)
       IN Analysis([c \in 1..Len(clustered_regions) |->
                      OcrRegion(clustered_regions[c], video)])

\* _analyze_edge_results: the keys of time_groups in the order the dict gets
\* them
RECURSIVE TimeKeys(_, _)
TimeKeys(regions, width) ==
  IF regions = <<>> THEN <<>>
  ELSE LET before == TimeKeys(SubSeq(regions, 1, Len(regions) - 1), width)
           time_key == regions[Len(regions)].frame_no \div width
       IN IF \E i \in 1..Len(before) : before[i] = time_key
            THEN before ELSE Append(before, time_key)

\* _analyze_edge_results: the region of one group
EdgeRegion(group, video) ==
  LET frames == FrameNos(group)
      min_x == MinOf([i \in 1..Len(group) |-> group[i].x])
      max_x == MaxOf([i \in 1..Len(group) |-> group[i].x + group[i].width])
      min_y == MinOf([i \in 1..Len(group) |-> group[i].y])
      max_y == MaxOf([i \in 1..Len(group) |-> group[i].y + group[i].height])
      duration_frames == FramesIn(video.fps, 30)
  IN [start_frame |-> Max(0, MinOf(frames) - duration_frames \div 2),
      end_frame |-> Min(video.total_frames - 1,
                        MaxOf(frames) + duration_frames \div 2),
      x |-> min_x, y |-> min_y, width |-> max_x - min_x, height |-> max_y - min_y,
      confidence |-> 70, text_content |-> <<"edge">>]

\* the groups of one hit kept as well
GroupCounts_any(group) == Len(group) >= 1

\* _analyze_edge_results: `if len(group) >= 2`
GroupCounts(group) == Len(group) >= 2

\* _analyze_edge_results; region['frame_no'] // int(self.fps * 2) raises
\* ZeroDivisionError when the frame rate is below 0.5
analyze_edge_results(regions, video) ==
  IF regions = <<>> THEN create_empty_analysis(video)
  ELSE IF FramesIn(video.fps, 20) = 0 THEN Raised
  ELSE LET width == FramesIn(video.fps, 20)
           keys == TimeKeys(regions, width)
           group(k) == SelectSeq(regions, LAMBDA r : r.frame_no \div width = k)
           kept == SelectSeq(keys, LAMBDA k : GroupCounts(group(k)))
       IN Analysis([n \in 1..Len(kept) |-> EdgeRegion(group(kept[n]), video)])

\* _analyze_motion_results: current_start is None
NoFrame == -1

\* _analyze_motion_results: one turn of the loop over the change events
MotionStep(st, change, fps) ==
  LET current_start == IF st.current_start = NoFrame THEN change.frame_no
                                                      ELSE st.current_start
  IN IF Len(st.subtitle_segments) > 0
          /\ change.frame_no - st.subtitle_segments[Len(st.subtitle_segments)].end
               > fps * 5
       THEN [subtitle_segments |->
               Append(st.subtitle_segments,
                      [start |-> current_start, end |-> change.frame_no,
                       changes |-> 1]),
             current_start |-> change.frame_no]
       ELSE [subtitle_segments |-> st.subtitle_segments,
             current_start |-> current_start]

RECURSIVE MotionLoop(_, _)
MotionLoop(changes, fps) ==
  IF changes = <<>> THEN [subtitle_segments |-> <<>>, current_start |-> NoFrame]
  ELSE MotionStep(MotionLoop(SubSeq(changes, 1, Len(changes) - 1), fps),
                  changes[Len(changes)], fps)

\* _analyze_motion_results: the segments, the last one closed after the loop
subtitle_segments(changes, fps) ==
  LET st == MotionLoop(changes, fps)
  IN IF st.current_start # NoFrame /\ changes # <<>>
       THEN Append(st.subtitle_segments,
                   [start |-> st.current_start,
                    end |-> changes[Len(changes)].frame_no,
                    changes |-> Len(changes)])
       ELSE st.subtitle_segments

\* _analyze_motion_results: the region of one segment, a fixed box in the
\* lower part of the frame
MotionRegion(segment, video) ==
  [start_frame |-> segment.start, end_frame |-> segment.end,
   x |-> Percent(video.width, 10), y |-> Percent(video.height, 80),
   width |-> Percent(video.width, 80), height |-> Percent(video.height, 15),
   confidence |-> 60, text_content |-> <<"motion">>]

\* _analyze_motion_results
analyze_motion_results(changes, video) ==
  IF changes = <<>> THEN create_empty_analysis(video)
  ELSE LET kept == SelectSeq(subtitle_segments(changes, video.fps),
                             LAMBDA segment : segment.changes >= 2)
       IN Analysis([n \in 1..Len(kept) |-> MotionRegion(kept[n], video)])

\* _parse_timed_response: the region of one entry of the answer
RemoteRegion(region_data, video) ==
  LET duration_frames == FramesIn(video.fps, 25)
  IN [start_frame |-> Max(0, region_data.frame_no - duration_frames \div 2),
      end_frame |-> Min(video.total_frames - 1,
                        region_data.frame_no + duration_frames \div 2),
      x |-> region_data.x, y |-> region_data.y,
      width |-> region_data.width, height |-> region_data.height,
      confidence |-> region_data.confidence,
      text_content |-> region_data.text_content]

\* _parse_timed_response: has_subtitles as the answer says, the regions of its
\* entries, merged with the default time_threshold
parse_timed_response(timed_regions, has_subtitles, video) ==
  [raised |-> FALSE, has_subtitles |-> has_subtitles,
   timed_regions |->
     merge_overlapping_regions(
       [i \in 1..Len(timed_regions) |-> RemoteRegion(timed_regions[i], video)],
       10)]

\* a batch of hits arrives for a video; the remote answer carries its own
\* has_subtitles
EngineInit ==
  /\ StoreAtRest
  /\ \E hits \in SeqsUpTo(RemoteHits, MaxHits), v \in Videos, b \in BOOLEAN :
        engine = [op |-> "input", input |-> hits, video |-> v,
                  has_subtitles |-> b, time_threshold |-> 10, passes |-> 0]
  /\ analysis = NoText

\* method1_ocr_based_detection hands its hits to _analyze_ocr_results
AnalyzeOcr ==
  /\ engine.op = "input"
  /\ AllLocal(engine.input) /\ FramesAscend(engine.input)
  /\ analysis' = analyze_ocr_results(engine.input, engine.video)
  /\ engine' = [engine EXCEPT !.op = "ocr"]
  /\ UNCHANGED storeVars

\* method2_edge_detection hands its hits to _analyze_edge_results
AnalyzeEdge ==
  /\ engine.op = "input"
  /\ AllLocal(engine.input) /\ FramesAscend(engine.input)
  /\ analysis' = analyze_edge_results(engine.input, engine.video)
  /\ engine' = [engine EXCEPT !.op = "edge"]
  /\ UNCHANGED storeVars

\* method5_motion_analysis hands its change events to _analyze_motion_results
AnalyzeMotion ==
  /\ engine.op = "input"
  /\ AllLocal(engine.input) /\ FramesStrictlyAscend(engine.input)
  /\ analysis' = analyze_motion_results(engine.input, engine.video)
  /\ engine' = [engine EXCEPT !.op = "motion"]
  /\ UNCHANGED storeVars

\* method3_template_matching: the default analysis, whatever the input
AnalyzeDefault ==
  /\ engine.op = "input"
  /\ analysis' = create_default_analysis(engine.video)
  /\ engine' = [engine EXCEPT !.op = "default"]
  /\ UNCHANGED storeVars

\* GeminiTimedClient._parse_timed_response
ParseTimedResponse ==
  /\ engine.op = "input"
  /\ analysis' = parse_timed_response(engine.input, engine.has_subtitles,
                                      engine.video)
  /\ engine' = [engine EXCEPT !.op = "remote"]
  /\ UNCHANGED storeVars

\* analysis.merge_overlapping_regions() on an analysis a method returned
MergeRegions ==
  /\ engine.op # "input"
  /\ ~analysis.raised
  /\ engine.passes < MaxPasses
  /\ analysis' = [analysis EXCEPT !.timed_regions =
                    merge_overlapping_regions(@, engine.time_threshold)]
  /\ engine' = [engine EXCEPT !.passes = @ + 1]
  /\ UNCHANGED storeVars

EngineNext ==
  \/ AnalyzeOcr
  \/ AnalyzeEdge
  \/ AnalyzeMotion
  \/ AnalyzeDefault
  \/ ParseTimedResponse
  \/ MergeRegions

SpecEngine == EngineInit /\ [][EngineNext]_vars

\* a region lies within the video: its frames and its box
InVideo(region, video) ==
  /\ 0 <= region.start_frame
  /\ region.start_frame <= region.end_frame
  /\ region.end_frame <= video.total_frames - 1
  /\ 0 <= region.x /\ region.x + region.width <= video.width
  /\ 0 <= region.y /\ region.y + region.height <= video.height

\* C17 (as the spec states it, refuted by the code): every region of every
\* analysis, whichever producer or merge pass emitted it, has
\* 0 <= start_frame <= end_frame <= total_frames-1 and a box within the frame.
C17_RegionsWithinVideo ==
  (engine.op # "input" /\ ~analysis.raised)
    => \A i \in 1..Len(analysis.timed_regions) :
          InVideo(analysis.timed_regions[i], engine.video)

\* the hits of a batch that fall into time bucket k (buckets of 2 seconds)
BucketHits(hits, fps, k) ==
  {i \in 1..Len(hits) : hits[i].frame_no \div (fps * 2) = k}

\* region is the one of the hits `members`: its box is their union
\* (min x, min y, max x+w, max y+h) and its frames are theirs, widened by
\* half of 3 seconds on each side and cut to the video
IsUnionOf(region, hits, members, video) ==
  LET frames == {hits[i].frame_no : i \in members}
      first == CHOOSE f \in frames : \A g \in frames : f <= g
      last == CHOOSE f \in frames : \A g \in frames : g <= f
      half == (video.fps * 3) \div 2
  IN /\ \A i \in members :
           /\ region.x <= hits[i].x
           /\ region.y <= hits[i].y
           /\ region.x + region.width >= hits[i].x + hits[i].width
           /\ region.y + region.height >= hits[i].y + hits[i].height
     /\ \E i \in members : region.x = hits[i].x
     /\ \E i \in members : region.y = hits[i].y
     /\ \E i \in members : region.x + region.width = hits[i].x + hits[i].width
     /\ \E i \in members : region.y + region.height = hits[i].y + hits[i].height
     /\ region.start_frame = IF first - half < 0 THEN 0 ELSE first - half
     /\ region.end_frame = IF last + half > video.total_frames - 1
                             THEN video.total_frames - 1 ELSE last + half

\* C18: temporal bucketing emits one region for every bucket of 2 or more
\* hits, with the union of the bucket's boxes as its box, and no region for a
\* bucket of 1 hit: the regions are as many as the buckets of 2 or more.
C18_BucketsOfTwoOrMore ==
  (engine.op = "edge" /\ engine.passes = 0 /\ ~analysis.raised)
    => LET hits == engine.input
           fps == engine.video.fps
           regions == analysis.timed_regions
           keys == {hits[i].frame_no \div (fps * 2) : i \in 1..Len(hits)}
           full == {k \in keys : Cardinality(BucketHits(hits, fps, k)) >= 2}
       IN /\ Len(regions) = Cardinality(full)
          /\ \A k \in full :
               Cardinality({n \in 1..Len(regions) :
                              IsUnionOf(regions[n], hits,
                                        BucketHits(hits, fps, k),
                                        engine.video)}) = 1

\* C18 witness: of three hits, two at different places share a bucket and the
\* third is alone in its own; one region came out, wider than any hit
C18_Witness ==
  /\ engine.op = "edge" /\ engine.passes = 0
  /\ ~analysis.raised
  /\ Len(engine.input) = 3
  /\ engine.input[1].frame_no = 0 /\ engine.input[2].frame_no = 3
  /\ engine.input[3].frame_no = 30
  /\ engine.input[1].x = 0 /\ engine.input[2].x = 60
  /\ Len(analysis.timed_regions) = 1
  /\ analysis.timed_regions[1].width = 100

\* the change events that open a segment: the first one, and every one that
\* comes more than 5 seconds after the event before it
SegmentStarts(changes, fps) ==
  {i \in 1..Len(changes) :
     i = 1 \/ changes[i].frame_no - changes[i - 1].frame_no > fps * 5}

\* the events of the segment that event s opens
SegmentOf(changes, fps, s) ==
  {i \in s..Len(changes) :
     \A j \in (s + 1)..i : j \notin SegmentStarts(changes, fps)}

\* the display-duration expansion: half of 3 seconds
DisplayExpansion(fps) == FramesIn(fps, 30) \div 2

\* C19 (as the spec states it, refuted by the code): a motion segment of one
\* change event gives no region; a segment of two or more gives a region that
\* starts at its first event and ends no later than its last event plus the
\* display-duration expansion.
C19_MotionSegmentsOfTwoOrMore ==
  (engine.op = "motion" /\ engine.passes = 0 /\ ~analysis.raised)
    => LET changes == engine.input
           fps == engine.video.fps
           regions == analysis.timed_regions
       IN \A s \in SegmentStarts(changes, fps) :
            LET segment == SegmentOf(changes, fps, s)
                last == CHOOSE i \in segment : \A j \in segment : j <= i
            IN IF Cardinality(segment) = 1
                 THEN \A n \in 1..Len(regions) :
                         regions[n].start_frame # changes[s].frame_no
                 ELSE \E n \in 1..Len(regions) :
                         /\ regions[n].start_frame = changes[s].frame_no
                         /\ regions[n].end_frame
                              <= changes[last].frame_no + DisplayExpansion(fps)

\* C20: on an empty batch the clustering, bucketing and motion analyses return
\* has_subtitles false with no regions and raise nothing, and a merge pass
\* over the empty list leaves it empty.
C20_EmptyInEmptyOut ==
  (engine.op \in {"ocr", "edge", "motion"} /\ engine.input = <<>>)
    => /\ ~analysis.raised
       /\ ~analysis.has_subtitles
       /\ analysis.timed_regions = <<>>

\* C20 witness: the bucketing analysis got no hits for a long video whose
\* frame rate is unknown (any hit would have raised), and a merge pass has run
\* over its empty list
C20_Witness ==
  /\ engine.op = "edge"
  /\ engine.input = <<>>
  /\ engine.video.fps = 0
  /\ engine.video.total_frames = 200
  /\ engine.passes = 1
  /\ analysis.timed_regions = <<>>

\* ------------------------------------------- the worker's region preparation
MaxEntries == 3       \* entries in one subtitle_regions list

\* a value of the parsed JSON: a number, or something int() refuses
Coord(n) == [numeric |-> TRUE, n |-> n]
NotANumber == [numeric |-> FALSE, n |-> 0]
Entry(ns) == [i \in 1..Len(ns) |-> Coord(ns[i])]

\* entries of the list json.loads hands to the task: corners in either order,
\* too few values, too many, and four values of which one is no number
EntryPool ==
  { Entry(<<50, 100, 10, 80>>), Entry(<<10, 80, 50, 100>>),
    Entry(<<108, 96, 972, 249>>), Entry(<<10, 20, 30>>),
    Entry(<<10, 20, 30, 40, 50>>), Entry(<<>>),
    Entry(<<10, 20, 30>>) \o <<NotANumber>> }

\* [int(coord) for coord in region]
int_coords(region) == [i \in 1..Len(region) |-> region[i].n]
IntRaises(region) == \E i \in 1..Len(region) : ~region[i].numeric

\* the loop of _process_video_sync over task.subtitle_regions: an entry of
\* length 4 is converted with int() and appended, any other is skipped with a
\* warning; int() raising ends the loop and the whole try block
RECURSIVE AreasLoop(_, _)
AreasLoop(rs, all) ==
  IF rs = <<>> THEN [raised |-> FALSE, all_areas |-> all]
  ELSE IF Len(Head(rs)) # 4 THEN AreasLoop(Tail(rs), all)
  ELSE IF IntRaises(Head(rs)) THEN [raised |-> TRUE, all_areas |-> all]
  ELSE AreasLoop(Tail(rs), Append(all, Area(int_coords(Head(rs)))))

\* sub_area as the try block leaves it
prepare_sub_area(subtitle_regions) ==
  IF subtitle_regions.kind = "none" \/ subtitle_regions.list = <<>>
    THEN [raised |-> FALSE, sub_area |-> RegNone]
    ELSE LET loop == AreasLoop(subtitle_regions.list, <<>>)
         IN [raised |-> loop.raised,
             sub_area |-> IF loop.raised \/ loop.all_areas = <<>>
                            THEN RegNone ELSE RegList(loop.all_areas)]

\* a worker has read its task
RegionsInit ==
  /\ StoreAtRest
  /\ \E r \in {RegNone} \cup {RegList(l) : l \in SeqsUpTo(EntryPool, MaxEntries)} :
        engine = [op |-> "input", subtitle_regions |-> r]
  /\ analysis = NoText

\* the region block of the try
PrepareSubArea ==
  /\ engine.op = "input"
  /\ analysis' = prepare_sub_area(engine.subtitle_regions)
                    @@ [status |-> PROCESSING]
  /\ engine' = [engine EXCEPT !.op = "prepared"]
  /\ UNCHANGED storeVars

\* ProcessingSubtitleRemover(task.file_path, sub_area=sub_area, ...)
RemoverBuilt ==
  /\ engine.op = "prepared" /\ ~analysis.raised
  /\ engine' = [engine EXCEPT !.op = "run"]
  /\ UNCHANGED <<analysis, storeVars>>

\* except Exception: update_task_status(task_id, FAILED, error_message=str(e))
RegionsExcept ==
  /\ engine.op = "prepared" /\ analysis.raised
  /\ analysis' = [analysis EXCEPT !.status = FAILED]
  /\ engine' = [engine EXCEPT !.op = "failed"]
  /\ UNCHANGED storeVars

RegionsNext ==
  \/ PrepareSubArea
  \/ RemoverBuilt
  \/ RegionsExcept

SpecRegions == RegionsInit /\ [][RegionsNext]_vars

\* sub_area as a list: None stands for no box
Boxes(sub_area) == IF sub_area.kind = "none" THEN <<>> ELSE sub_area.list

\* C21: the worker receives, for each entry [x1, y1, x2, y2] in input order,
\* its own box (ymin, ymax, xmin, xmax) with the smaller corner value first,
\* whatever the order of the corners; entries of another length give no box
\* and no two entries are merged into one.
C21_RegionsNormalised ==
  (engine.op = "run")
    => LET rs == engine.subtitle_regions.list
           valid == {i \in 1..Len(rs) : Len(rs[i]) = 4}
           boxes == Boxes(analysis.sub_area)
       IN /\ Len(boxes) = Cardinality(valid)
          /\ \A i \in valid :
               LET k == Cardinality({j \in valid : j <= i})
                   x1 == rs[i][1].n
                   y1 == rs[i][2].n
                   x2 == rs[i][3].n
                   y2 == rs[i][4].n
               IN /\ boxes[k][1] <= y1 /\ boxes[k][1] <= y2
                  /\ boxes[k][2] >= y1 /\ boxes[k][2] >= y2
                  /\ {boxes[k][1], boxes[k][2]} = {y1, y2}
                  /\ boxes[k][3] <= x1 /\ boxes[k][3] <= x2
                  /\ boxes[k][4] >= x1 /\ boxes[k][4] >= x2
                  /\ {boxes[k][3], boxes[k][4]} = {x1, x2}

\* C21 witness: the remover was built for [50,100,10,80], a three-value entry
\* and [108,96,972,249]: two separate boxes, the first with its corners swapped
C21_Witness ==
  /\ engine.op = "run"
  /\ engine.subtitle_regions
       = RegList(<<Entry(<<50, 100, 10, 80>>), Entry(<<10, 20, 30>>),
                   Entry(<<108, 96, 972, 249>>)>>)
  /\ analysis.sub_area = RegList(<< <<80, 100, 10, 50>>, <<96, 249, 108, 972>> >>)

\* an entry of exactly 4 numeric values
WellFormed(region) == Len(region) = 4 /\ \A i \in 1..4 : region[i].numeric

\* C22 (as the spec states it, refuted by the code): an entry that is not
\* exactly 4 numeric values is skipped on its own; the task does not fail for
\* it and the boxes of the well-formed entries still reach the remover.
C22_MalformedEntrySkipped ==
  (engine.op # "input")
    => LET rs == engine.subtitle_regions.list
           wellformed == {i \in 1..Len(rs) : WellFormed(rs[i])}
       IN /\ analysis.status # FAILED
          /\ ~analysis.raised
          /\ Len(Boxes(analysis.sub_area)) = Cardinality(wellformed)

\* ------------------------------------------------------ spatial clustering
MaxClusterHits == 3   \* hits in one batch handed to the clustering

\* boxes around (10, 10, 50, 20): nearly the same, 49 or 50 pixels to the
\* right, and 50 pixels off in y, in width or in height
Shapes ==
  { <<10, 10, 50, 20>>, <<12, 11, 49, 21>>, <<59, 10, 50, 20>>,
    <<60, 10, 50, 20>>, <<10, 60, 50, 20>>, <<10, 10, 100, 20>>,
    <<10, 10, 50, 70>> }

ShapedHit(f, shape) ==
  [frame_no |-> f, x |-> shape[1], y |-> shape[2], width |-> shape[3],
   height |-> shape[4], confidence |-> 80, text_content |-> NoChars]

ClusterHits == { ShapedHit(f, shape) : f \in {0, 5, 40}, shape \in Shapes }

\* a short video at 10 frames per second and a long one at 2
ClusterVideos ==
  { [width |-> 200, height |-> 100, fps |-> 10, total_frames |-> 42],
    [width |-> 200, height |-> 100, fps |-> 2, total_frames |-> 200] }

ClusterInit ==
  /\ StoreAtRest
  /\ \E hits \in SeqsUpTo(ClusterHits, MaxClusterHits), v \in ClusterVideos :
        /\ FramesAscend(hits)
        /\ engine = [op |-> "input", input |-> hits, video |-> v,
                     clusters |-> <<>>]
  /\ analysis = NoText

\* _analyze_ocr_results: clustered_regions, then one region per cluster
ClusterAndAnalyze ==
  /\ engine.op = "input"
  /\ engine' = [engine EXCEPT !.op = "clustered",
                              !.clusters = cluster_regions(engine.input)]
  /\ analysis' = analyze_ocr_results(engine.input, engine.video)
  /\ UNCHANGED storeVars

ClusterNext == ClusterAndAnalyze

SpecCluster == ClusterInit /\ [][ClusterNext]_vars

\* within the tolerance of 50 in each of x, y, width and height
Compatible(seed, hit) ==
  \A d \in {<<seed.x, hit.x>>, <<seed.y, hit.y>>, <<seed.width, hit.width>>,
            <<seed.height, hit.height>>} :
     d[1] - d[2] < 50 /\ d[2] - d[1] < 50

\* the single-pass greedy rule: the hit joins the first cluster whose seed it
\* is compatible with, or starts a new one
GreedyStep(clusters, hit) ==
  LET fits == {c \in 1..Len(clusters) : Compatible(clusters[c][1], hit)}
  IN IF fits = {} THEN Append(clusters, <<hit>>)
     ELSE LET first == CHOOSE c \in fits : \A d \in fits : c <= d
          IN [clusters EXCEPT ![first] = Append(@, hit)]

RECURSIVE Greedy(_, _)
Greedy(hits, clusters) ==
  IF hits = <<>> THEN clusters
  ELSE Greedy(Tail(hits), GreedyStep(clusters, Head(hits)))

\* C23: the clusters are those of the single-pass greedy rule, in the same
\* order and with the same member order, and every hit is in exactly one.
C23_ClustersAreGreedy ==
  (engine.op = "clustered")
    => /\ engine.clusters = Greedy(engine.input, <<>>)
       /\ SumSeq([c \in 1..Len(engine.clusters) |-> Len(engine.clusters[c])])
            = Len(engine.input)
       /\ \A i \in 1..Len(engine.input) :
            \E c \in 1..Len(engine.clusters) :
               \E m \in 1..Len(engine.clusters[c]) :
                  engine.clusters[c][m] = engine.input[i]

\* C23 witness: the third hit is within tolerance of both earlier hits, which
\* are not within tolerance of each other; it went to the first one's cluster
C23_Witness ==
  /\ engine.op = "clustered"
  /\ engine.input = <<ShapedHit(0, <<10, 10, 50, 20>>),
                      ShapedHit(5, <<60, 10, 50, 20>>),
                      ShapedHit(5, <<59, 10, 50, 20>>)>>
  /\ engine.clusters = << <<ShapedHit(0, <<10, 10, 50, 20>>),
                            ShapedHit(5, <<59, 10, 50, 20>>)>>,
                          <<ShapedHit(5, <<60, 10, 50, 20>>)>> >>

\* C24: clustering emits one region per cluster, from the cluster's first
\* frame minus k to its last frame plus k, cut to [0, total_frames - 1], with
\* k half of the display duration of 2.5 seconds in frames.
C24_OneRegionPerCluster ==
  (engine.op = "clustered")
    => LET regions == analysis.timed_regions
           k == ((engine.video.fps * 25) \div 10) \div 2
           top == engine.video.total_frames - 1
       IN /\ Len(regions) = Len(engine.clusters)
          /\ \A c \in 1..Len(engine.clusters) :
               LET frames == {engine.clusters[c][m].frame_no :
                                m \in 1..Len(engine.clusters[c])}
                   first == CHOOSE f \in frames : \A g \in frames : f <= g
                   last == CHOOSE f \in frames : \A g \in frames : g <= f
               IN /\ regions[c].start_frame
                       = (IF first - k < 0 THEN 0 ELSE first - k)
                  /\ regions[c].end_frame
                       = (IF last + k > top THEN top ELSE last + k)

\* C24 witness: the hits (frame 0: 10,10,50,20) and (frame 5: 12,11,49,21) at
\* 10 frames per second, k = 12: one cluster, one region from 0 (cut) to 17
C24_Witness ==
  /\ engine.op = "clustered"
  /\ engine.video.fps = 10
  /\ engine.input = <<ShapedHit(0, <<10, 10, 50, 20>>),
                      ShapedHit(5, <<12, 11, 49, 21>>)>>
  /\ Len(engine.clusters) = 1
  /\ Len(analysis.timed_regions) = 1
  /\ analysis.timed_regions[1].start_frame = 0
  /\ analysis.timed_regions[1].end_frame = 17

\* C25 (as the spec states it, refuted by the code): change events stay in one
\* motion segment unless the gap to the event before exceeds 5 seconds in
\* frames; a larger gap closes the segment and opens a new one at the next
\* event, so the segments are as many as the gap-separated groups and each
\* runs from its group's first event to its last.
C25_GapOpensNewSegment ==
  (engine.op = "motion" /\ engine.passes = 0 /\ engine.input # <<>>)
    => LET changes == engine.input
           fps == engine.video.fps
           segments == subtitle_segments(changes, fps)
           starts == SegmentStarts(changes, fps)
       IN /\ Len(segments) = Cardinality(starts)
          /\ \A s \in starts :
               LET group == SegmentOf(changes, fps, s)
                   last == CHOOSE i \in group : \A j \in group : j <= i
               IN \E n \in 1..Len(segments) :
                     /\ segments[n].start = changes[s].frame_no
                     /\ segments[n].end = changes[last].frame_no

\* ------------------------------------- the merge at the edge of its tolerances
\* boxes around (100, 400, 300, 40): the same, and one dimension off by the
\* tolerance or by one pixel more
EdgeShapes ==
  { <<100, 400, 300, 40>>,
    <<120, 400, 300, 40>>, <<121, 400, 300, 40>>,
    <<100, 420, 300, 40>>, <<100, 421, 300, 40>>,
    <<100, 400, 330, 40>>, <<100, 400, 331, 40>>,
    <<100, 400, 300, 60>>, <<100, 400, 300, 61>> }

EdgeRegion_at(s, d, shape) ==
  [start_frame |-> s, end_frame |-> s + d, x |-> shape[1], y |-> shape[2],
   width |-> shape[3], height |-> shape[4], confidence |-> 80,
   text_content |-> NoChars]

\* regions starting 10 and 11 frames after the one before ends, or inside it
EdgePool ==
  { EdgeRegion_at(s, d, shape) : s \in {0, 10, 21}, d \in {0, 15},
                                 shape \in EdgeShapes }

EdgesInit ==
  /\ StoreAtRest
  /\ \E rs \in SeqsUpTo(EdgePool, MaxRegions) :
        /\ engine = [op |-> "merge", input |-> rs, time_threshold |-> 10,
                     passes |-> 0]
        /\ analysis = [has_subtitles |-> rs # <<>>, timed_regions |-> rs]

SpecMergeEdges == EdgesInit /\ [][MergeNext]_vars

\* |dx| <= 20, |dy| <= 20, |dwidth| <= 30, |dheight| <= 20
Close(last, candidate) ==
  /\ candidate.x - last.x <= 20 /\ last.x - candidate.x <= 20
  /\ candidate.y - last.y <= 20 /\ last.y - candidate.y <= 20
  /\ candidate.width - last.width <= 30 /\ last.width - candidate.width <= 30
  /\ candidate.height - last.height <= 20 /\ last.height - candidate.height <= 20

\* the accepted region that index j of the walk belongs to, given the set
\* `accepted` of the indexes that were appended
AcceptedBefore(accepted, j) ==
  CHOOSE s \in accepted : s <= j /\ \A t \in accepted : t <= j => t <= s

\* `accepted` is the outcome of the walk over `sorted`: the first region is
\* appended; a later one is merged iff it is close to the last accepted region
\* and starts no more than the threshold after that region's current end (the
\* end of the region walked just before), and is appended otherwise
IsWalk(sorted, accepted, threshold) ==
  /\ sorted # <<>> => 1 \in accepted
  /\ \A i \in 2..Len(sorted) :
        (i \notin accepted)
          <=> /\ Close(sorted[AcceptedBefore(accepted, i - 1)], sorted[i])
              /\ sorted[i].start_frame - sorted[i - 1].end_frame <= threshold

\* C26: in the walk in stable start_frame order a candidate is merged into the
\* last accepted region iff |dx| <= 20, |dy| <= 20, |dwidth| <= 30,
\* |dheight| <= 20 and candidate.start_frame - last.end_frame <=
\* time_threshold (so never across a larger time gap); a candidate that is not
\* merged is appended unchanged.
C26_MergedIffClose ==
  (engine.passes = 1)
    => LET sorted == SortByStart(engine.input)
           out == analysis.timed_regions
       IN \E accepted \in SUBSET (1..Len(sorted)) :
            /\ IsWalk(sorted, accepted, engine.time_threshold)
            /\ Len(out) = Cardinality(accepted)
            /\ \A s \in accepted :
                 LET b == Cardinality({t \in accepted : t <= s})
                     later == {t \in accepted : t > s}
                     last == IF later = {} THEN Len(sorted)
                             ELSE (CHOOSE t \in later : \A u \in later : t <= u) - 1
                 IN /\ out[b].start_frame = sorted[s].start_frame
                    /\ out[b].x = sorted[s].x /\ out[b].y = sorted[s].y
                    /\ out[b].width = sorted[s].width
                    /\ out[b].height = sorted[s].height
                    /\ out[b].end_frame = sorted[last].end_frame
                    /\ last = s => out[b] = sorted[s]

\* C26 witness: a region 30 pixels wider starting 10 frames after the first
\* one ends was merged into it; a third, like the first but starting 11 frames
\* after the merged region's end, was appended unchanged
C26_Witness ==
  /\ engine.passes = 1
  /\ engine.input = <<EdgeRegion_at(0, 0, <<100, 400, 300, 40>>),
                      EdgeRegion_at(10, 0, <<100, 400, 330, 40>>),
                      EdgeRegion_at(21, 0, <<100, 400, 300, 40>>)>>
  /\ analysis.timed_regions
       = <<[EdgeRegion_at(0, 0, <<100, 400, 300, 40>>) EXCEPT !.end_frame = 10],
           EdgeRegion_at(21, 0, <<100, 400, 300, 40>>)>>

\* C27 (as the spec states it, refuted by the code): a merge pass only extends
\* regions in time: every region of the output ends no earlier than the input
\* region it started as, and every frame some input region covers is covered
\* by some output region.
C27_MergeOnlyExtends ==
  (engine.passes = 1)
    => LET in == engine.input
           out == analysis.timed_regions
       IN /\ \A b \in 1..Len(out) :
               \E i \in 1..Len(in) :
                  /\ in[i].start_frame = out[b].start_frame
                  /\ in[i].x = out[b].x
                  /\ in[i].end_frame <= out[b].end_frame
          /\ \A i \in 1..Len(in) :
               \A f \in in[i].start_frame..in[i].end_frame :
                  \E b \in 1..Len(out) :
                     out[b].start_frame <= f /\ f <= out[b].end_frame

\* C28 (as the spec states it, refuted by the code): a progress update from
\* the worker changes the progress field of the task and nothing else: status,
\* started_at, completed_at, error_message and output_path stay as they were,
\* whatever the status of the task when the update arrives.
C28_ProgressOnlyChangesProgress ==
  [][\A w \in WorkerIds, p \in ProgressValues :
        (WorkerProgress(w, p) /\ HasTask(workers[w].task))
          => tasks'[workers[w].task]
               = [tasks[workers[w].task] EXCEPT !.progress = p]]_vars

\* C29 (as the spec states it, refuted by the code): a COMPLETED task has its
\* output_path set, progress 100 and no error_message, and only FAILED tasks
\* carry an error_message.
C29_CompletedTaskIsClean ==
  \A t \in DOMAIN tasks :
     /\ tasks[t].status = COMPLETED
          => /\ tasks[t].output_path # NoText
             /\ tasks[t].progress = 100
             /\ tasks[t].error_message = NoText
     /\ tasks[t].error_message # NoText => tasks[t].status = FAILED

\* ------------------------------------------------------ the per-frame mask map
MaxMaskRegions == 3   \* timed regions handed to TimedSubtitleDetect

\* regions over a few frames: one frame long, three frames long, and with
\* end_frame before start_frame; two boxes
MaskRegion(s, d, x) ==
  [start_frame |-> s, end_frame |-> s + d, x |-> x, y |-> 400, width |-> 300,
   height |-> 40, confidence |-> 80, text_content |-> NoChars]

MaskPool == { MaskRegion(s, d, x) : s \in {0, 1, 2}, d \in {-1, 0, 2},
                                    x \in {100, 500} }

\* frame numbers around those of the pool
MaskFrames == (0 - 2)..6

\* TimedSubtitleRegion.get_bbox: (xmin, xmax, ymin, ymax)
get_bbox(region) ==
  <<region.x, region.x + region.width, region.y, region.y + region.height>>

\* TimedSubtitleRegion.contains_frame
contains_frame(region, frame_no) ==
  region.start_frame <= frame_no /\ frame_no <= region.end_frame

\* TimedSubtitleAnalysis.get_regions_for_frame
get_regions_for_frame(timed_regions, frame_no) ==
  SelectSeq(timed_regions, LAMBDA region : contains_frame(region, frame_no))

\* range(start_frame, end_frame): the last frame left out
FrameRange_exclusive(timed_region) ==
  timed_region.start_frame..(timed_region.end_frame - 1)

\* range(timed_region.start_frame, timed_region.end_frame + 1)
FrameRange(timed_region) == timed_region.start_frame..timed_region.end_frame

\* find_subtitle_frame_no: the inner loop, one region's box added to the list
\* of each of its frames
AddRegion(subtitle_frame_no_box_dict, timed_region) ==
  [frame_no \in DOMAIN subtitle_frame_no_box_dict \cup FrameRange(timed_region) |->
     IF frame_no \notin FrameRange(timed_region)
       THEN subtitle_frame_no_box_dict[frame_no]
       ELSE IF frame_no \in DOMAIN subtitle_frame_no_box_dict
              THEN Append(subtitle_frame_no_box_dict[frame_no],
                          get_bbox(timed_region))
              ELSE <<get_bbox(timed_region)>>]

\* find_subtitle_frame_no: the loop over self.timed_regions
RECURSIVE find_subtitle_frame_no(_)
find_subtitle_frame_no(timed_regions) ==
  IF timed_regions = <<>> THEN <<>>
  ELSE AddRegion(find_subtitle_frame_no(SubSeq(timed_regions, 1,
                                               Len(timed_regions) - 1)),
                 timed_regions[Len(timed_regions)])

\* TimedSubtitleDetect(video_path, timed_regions)
MaskInit ==
  /\ StoreAtRest
  /\ \E rs \in SeqsUpTo(MaskPool, MaxMaskRegions) :
        engine = [op |-> "input", timed_regions |-> rs]
  /\ analysis = NoText

\* sub_detector.find_subtitle_frame_no()
FindSubtitleFrameNo ==
  /\ engine.op = "input"
  /\ analysis' = [subtitle_frame_no_box_dict |->
                    find_subtitle_frame_no(engine.timed_regions)]
  /\ engine' = [engine EXCEPT !.op = "mapped"]
  /\ UNCHANGED storeVars

MaskNext == FindSubtitleFrameNo

SpecMask == MaskInit /\ [][MaskNext]_vars

\* C30: the mask map agrees with the region model: a frame is a key iff some
\* timed region contains it, and its boxes are the get_bbox() boxes of
\* get_regions_for_frame(frame), one per region and in region order.
C30_MaskMapMatchesRegions ==
  (engine.op = "mapped")
    => LET dict == analysis.subtitle_frame_no_box_dict
           regions == engine.timed_regions
       IN /\ DOMAIN dict
               = {f \in MaskFrames :
                    \E i \in 1..Len(regions) :
                       regions[i].start_frame <= f /\ f <= regions[i].end_frame}
          /\ \A f \in DOMAIN dict :
               LET active == get_regions_for_frame(regions, f)
               IN /\ Len(dict[f]) = Len(active)
                  /\ \A n \in 1..Len(active) : dict[f][n] = get_bbox(active[n])

\* C30 witness: frames 0..2 and 2..4 are covered by two regions with different
\* boxes and a third region ends before it starts; frame 2 lists both boxes in
\* region order, frame 4 only the second, and no other frame is a key
C30_Witness ==
  /\ engine.op = "mapped"
  /\ engine.timed_regions = <<MaskRegion(0, 2, 500), MaskRegion(2, 2, 100),
                              MaskRegion(1, 0 - 1, 100)>>
  /\ DOMAIN analysis.subtitle_frame_no_box_dict = 0..4
  /\ analysis.subtitle_frame_no_box_dict[2]
       = << <<500, 800, 400, 440>>, <<100, 400, 400, 440>> >>
  /\ analysis.subtitle_frame_no_box_dict[4] = << <<100, 400, 400, 440>> >>

====
